---- MODULE Spec2Model ----
(***************************************************************************)
(* JobMarketAnalyzer (scraper.py): extraction of technology, location,     *)
(* salary and title signals from job posts, the in-memory counters, and    *)
(* the additive merge of the counters into the sqlite store.               *)
(*                                                                         *)
(* Text is modelled character by character: a string is a sequence of      *)
(* one-character strings, so that str.split, str.strip and the three       *)
(* regular expressions are computed the way Python computes them.          *)
(***************************************************************************)
EXTENDS Integers, Sequences, FiniteSets, TLC

\* ------------------------------------------------------------------------
\* Characters and character classes
\* ------------------------------------------------------------------------

\* str.split() without argument and the regex class \s: whitespace.
SpaceChars == {" ", "\n", "\t"}

LowerChars ==
    {"a", "b", "c", "d", "e", "f", "g", "h", "i", "j", "k", "l", "m",
     "n", "o", "p", "q", "r", "s", "t", "u", "v", "w", "x", "y", "z"}

UpperChars ==
    {"A", "B", "C", "D", "E", "F", "G", "H", "I", "J", "K", "L", "M",
     "N", "O", "P", "Q", "R", "S", "T", "U", "V", "W", "X", "Y", "Z"}

\* [a-zA-Z]
LetterChars == LowerChars \cup UpperChars

\* \d
DigitChars == {"0", "1", "2", "3", "4", "5", "6", "7", "8", "9"}

\* \w, the class that decides \b
WordChars == LetterChars \cup DigitChars \cup {"_"}

\* word.strip(".,/:;!@()[]{}'\"")
StripChars ==
    {".", ",", "/", ":", ";", "!", "@", "(", ")", "[", "]", "{", "}", "'", "\""}

\* [a-zA-Z\s,] of location_pattern
LocationChars == LetterChars \cup SpaceChars \cup {","}

\* [a-zA-Z\s] of title_pattern
TitleChars == LetterChars \cup SpaceChars

\* ------------------------------------------------------------------------
\* The fixed technology vocabulary (keys of self.technologies)
\* ------------------------------------------------------------------------

T_python == <<"p", "y", "t", "h", "o", "n">>
T_javascript == <<"j", "a", "v", "a", "s", "c", "r", "i", "p", "t">>
T_typescript == <<"t", "y", "p", "e", "s", "c", "r", "i", "p", "t">>
T_java == <<"j", "a", "v", "a">>
T_csharp == <<"c", "#">>
T_cpp == <<"c", "+", "+">>
T_go == <<"g", "o">>
T_rust == <<"r", "u", "s", "t">>
T_ruby == <<"r", "u", "b", "y">>
T_php == <<"p", "h", "p">>
T_swift == <<"s", "w", "i", "f", "t">>
T_kotlin == <<"k", "o", "t", "l", "i", "n">>
T_scala == <<"s", "c", "a", "l", "a">>
T_dart == <<"d", "a", "r", "t">>
T_react == <<"r", "e", "a", "c", "t">>
T_angular == <<"a", "n", "g", "u", "l", "a", "r">>
T_vue == <<"v", "u", "e">>
T_node == <<"n", "o", "d", "e">>
T_django == <<"d", "j", "a", "n", "g", "o">>
T_flask == <<"f", "l", "a", "s", "k">>
T_aws == <<"a", "w", "s">>
T_azure == <<"a", "z", "u", "r", "e">>
T_gcp == <<"g", "c", "p">>
T_docker == <<"d", "o", "c", "k", "e", "r">>
T_kubernetes == <<"k", "u", "b", "e", "r", "n", "e", "t", "e", "s">>
T_sql == <<"s", "q", "l">>
T_nosql == <<"n", "o", "s", "q", "l">>
T_mongodb == <<"m", "o", "n", "g", "o", "d", "b">>
T_postgresql == <<"p", "o", "s", "t", "g", "r", "e", "s", "q", "l">>
T_mysql == <<"m", "y", "s", "q", "l">>

Vocabulary ==
    {T_python, T_javascript, T_typescript, T_java, T_csharp,
     T_cpp, T_go, T_rust, T_ruby, T_php,
     T_swift, T_kotlin, T_scala, T_dart, T_react,
     T_angular, T_vue, T_node, T_django, T_flask,
     T_aws, T_azure, T_gcp, T_docker, T_kubernetes,
     T_sql, T_nosql, T_mongodb, T_postgresql, T_mysql}

\* ------------------------------------------------------------------------
\* Strings
\* ------------------------------------------------------------------------

Max(S) == CHOOSE x \in S : \A y \in S : y <= x

\* Number of consecutive characters of class S in p starting at position i.
RunLen(p, i, S) ==
    Max({n \in 0..(Len(p) + 1 - i) : \A k \in i..(i + n - 1) : p[k] \in S})

\* p[i:] of Python (positions from 1).
From(p, i) == SubSeq(p, i, Len(p))

\* post.split(): the maximal runs of non-whitespace characters, in order.
RECURSIVE Split(_)
Split(p) ==
    IF p = <<>> THEN <<>>
    ELSE IF Head(p) \in SpaceChars THEN Split(Tail(p))
    ELSE LET n == CHOOSE m \in 1..Len(p) :
                      /\ \A k \in 1..m : p[k] \notin SpaceChars
                      /\ (m = Len(p) \/ p[m + 1] \in SpaceChars)
         IN  <<SubSeq(p, 1, n)>> \o Split(From(p, n + 1))

\* str.lstrip(chars) and str.rstrip(chars)
RECURSIVE LStrip(_, _)
LStrip(w, chars) ==
    IF w # <<>> /\ Head(w) \in chars THEN LStrip(Tail(w), chars) ELSE w

RECURSIVE RStrip(_, _)
RStrip(w, chars) ==
    IF w # <<>> /\ w[Len(w)] \in chars
    THEN RStrip(SubSeq(w, 1, Len(w) - 1), chars)
    ELSE w

\* str.strip(chars); str.strip() is Strip(w, SpaceChars)
Strip(w, chars) == RStrip(LStrip(w, chars), chars)

\* Words, matching a technology anywhere inside a token.
WordsSubstring(post) ==
    {SubSeq(post, i, j) : i \in 1..Len(post), j \in 1..Len(post)}

\* words = {word.strip(".,/:;!@()[]{}'\"") for word in post.split()}
Words(post) ==
    LET toks == Split(post)
    IN  {Strip(toks[i], StripChars) : i \in 1..Len(toks)}

\* ------------------------------------------------------------------------
\* Regular expressions (re.findall)
\* ------------------------------------------------------------------------

NoMatch == [found |-> FALSE]

\* The literal lit matches p at position i.
MatchLit(p, i, lit) ==
    /\ i + Len(lit) - 1 <= Len(p)
    /\ SubSeq(p, i, i + Len(lit) - 1) = lit

\* \b at position i: exactly one of p[i-1], p[i] is a word character.
WordBoundary(p, i) ==
    (i > 1 /\ p[i - 1] \in WordChars) # (i <= Len(p) /\ p[i] \in WordChars)

\* (x|y|...): the result of the first alternative that matches, tries
\* being the results of the alternatives in the order of the pattern.
FirstAlt(tries) ==
    LET ok == {n \in 1..Len(tries) : tries[n].found}
    IN  IF ok = {} THEN NoMatch
        ELSE tries[CHOOSE n \in ok : \A m \in ok : n <= m]

LocationAnchors ==
    << <<"l", "o", "c", "a", "t", "e", "d", " ", "i", "n">>,
       <<"b", "a", "s", "e", "d", " ", "i", "n">>,
       <<"r", "e", "m", "o", "t", "e">>,
       <<"h", "y", "b", "r", "i", "d">>,
       <<"o", "n", "s", "i", "t", "e">>,
       <<"i", "n">> >>

\* location_pattern = r"\b(located in|based in|remote|hybrid|onsite|in)\s+([a-zA-Z\s,]+)"
\* matched at position i. \s+ and the group are greedy; \s+ gives characters
\* back until the group has at least one character.
LocationMatchAt(p, i) ==
    LET Try(anchor) ==
            IF ~MatchLit(p, i, anchor) THEN NoMatch
            ELSE LET s  == i + Len(anchor)
                     ws == {w \in 1..RunLen(p, s, SpaceChars) :
                               RunLen(p, s + w, LocationChars) >= 1}
                 IN  IF ws = {} THEN NoMatch
                     ELSE LET w == Max(ws)
                              g == RunLen(p, s + w, LocationChars)
                          IN  [found  |-> TRUE,
                               end    |-> s + w + g,
                               groups |-> <<anchor, SubSeq(p, s + w, s + w + g - 1)>>]
    IN  IF WordBoundary(p, i) THEN FirstAlt([n \in 1..Len(LocationAnchors) |-> Try(LocationAnchors[n])]) ELSE NoMatch

TitleAnchors ==
    << <<"l", "o", "o", "k", "i", "n", "g", " ", "f", "o", "r">>,
       <<"s", "e", "e", "k", "i", "n", "g">>,
       <<"p", "o", "s", "i", "t", "i", "o", "n">>,
       <<"r", "o", "l", "e">> >>

\* title_pattern = r"\b(looking for|seeking|position|role)\s+([a-zA-Z\s]+)\b"
\* matched at position i. The group gives characters back until it ends at
\* a word boundary, and then \s+ does.
TitleMatchAt(p, i) ==
    LET Try(anchor) ==
            IF ~MatchLit(p, i, anchor) THEN NoMatch
            ELSE LET s  == i + Len(anchor)
                     Gs(w) == {g \in 1..RunLen(p, s + w, TitleChars) :
                                  WordBoundary(p, s + w + g)}
                     ws == {w \in 1..RunLen(p, s, SpaceChars) : Gs(w) # {}}
                 IN  IF ws = {} THEN NoMatch
                     ELSE LET w == Max(ws)
                              g == Max(Gs(w))
                          IN  [found  |-> TRUE,
                               end    |-> s + w + g,
                               groups |-> <<anchor, SubSeq(p, s + w, s + w + g - 1)>>]
    IN  IF WordBoundary(p, i) THEN FirstAlt([n \in 1..Len(TitleAnchors) |-> Try(TitleAnchors[n])]) ELSE NoMatch

\* salary_pattern = r"\$(\d{2,3}k|\d{3},\d{3})" matched at position i.
\* \d{2,3}k tries three digits, then two; \d{3},\d{3} is tried after it.
SalaryMatchAt(p, i) ==
    LET d  == RunLen(p, i + 1, DigitChars)
        ns == {n \in {2, 3} : n <= d /\ i + n + 1 <= Len(p) /\ p[i + n + 1] = "k"}
    IN  IF ~(i <= Len(p) /\ p[i] = "$") THEN NoMatch
        ELSE IF ns # {}
        THEN LET n == Max(ns)
             IN  [found |-> TRUE, end |-> i + n + 2,
                  groups |-> SubSeq(p, i + 1, i + n + 1)]
        ELSE IF /\ d >= 3
                /\ i + 4 <= Len(p) /\ p[i + 4] = ","
                /\ RunLen(p, i + 5, DigitChars) >= 3
        THEN [found |-> TRUE, end |-> i + 8, groups |-> SubSeq(p, i + 1, i + 7)]
        ELSE NoMatch

\* re.findall(location_pattern, post[i-1:]) scanning from position i: the
\* groups of the non-overlapping matches, left to right.
RECURSIVE LocationFindAll(_, _)
LocationFindAll(p, i) ==
    IF i > Len(p) THEN <<>>
    ELSE LET m == LocationMatchAt(p, i)
         IN  IF m.found THEN <<m.groups>> \o LocationFindAll(p, m.end)
             ELSE LocationFindAll(p, i + 1)

RECURSIVE SalaryFindAll(_, _)
SalaryFindAll(p, i) ==
    IF i > Len(p) THEN <<>>
    ELSE LET m == SalaryMatchAt(p, i)
         IN  IF m.found THEN <<m.groups>> \o SalaryFindAll(p, m.end)
             ELSE SalaryFindAll(p, i + 1)

RECURSIVE TitleFindAll(_, _)
TitleFindAll(p, i) ==
    IF i > Len(p) THEN <<>>
    ELSE LET m == TitleMatchAt(p, i)
         IN  IF m.found THEN <<m.groups>> \o TitleFindAll(p, m.end)
             ELSE TitleFindAll(p, i + 1)

\* ------------------------------------------------------------------------
\* Counters: Python dicts and store tables are functions from keys to counts
\* ------------------------------------------------------------------------

EmptyDict == [k \in {} |-> 0]

\* The count of key k, 0 when the dict (the table) has no such key (row).
Get(d, k) == IF k \in DOMAIN d THEN d[k] ELSE 0

\* d[k] += 1 on a defaultdict(int): a missing key starts at 0.
Incr(d, k) ==
    [x \in DOMAIN d \cup {k} |-> IF x = k THEN Get(d, k) + 1 ELSE d[x]]

\* d[k] = n
Assign(d, k, n) ==
    [x \in DOMAIN d \cup {k} |-> IF x = k THEN n ELSE d[x]]

\* for k in ks: d[k] += 1, ks a list of keys (repeated keys count again).
RECURSIVE IncrAll(_, _)
IncrAll(d, ks) ==
    IF ks = <<>> THEN d ELSE IncrAll(Incr(d, Head(ks)), Tail(ks))

\* ------------------------------------------------------------------------
\* JobMarketAnalyzer: the in-memory state of one analyzer
\* ------------------------------------------------------------------------

\* __init__: every vocabulary technology at 0, empty defaultdicts, no posts.
NewAnalyzer ==
    [technologies  |-> [t \in Vocabulary |-> 0],
     locations     |-> EmptyDict,
     salary_ranges |-> EmptyDict,
     job_titles    |-> EmptyDict,
     job_posts     |-> <<>>]

\* for tech in self.technologies: if tech in words: self.technologies[tech] += 1
CountTechnologies(technologies, words) ==
    [t \in DOMAIN technologies |->
        IF t \in words THEN technologies[t] + 1 ELSE technologies[t]]

\* CountLocation, counting every match of the post.
CountAllLocations(locations, post) ==
    LET matches == LocationFindAll(post, 1)
    IN  IncrAll(locations,
                [i \in 1..Len(matches) |-> Strip(matches[i][2], SpaceChars)])

\* CountLocation, recording a location only while none is recorded.
CountLocationOnce(locations, post) ==
    LET matches == LocationFindAll(post, 1)
    IN  IF matches # <<>> /\ DOMAIN locations = {}
        THEN Incr(locations, Strip(matches[1][2], SpaceChars))
        ELSE locations

\* matches = re.findall(location_pattern, post)
\* if matches: self.locations[matches[0][1].strip()] += 1
CountLocation(locations, post) ==
    LET matches == LocationFindAll(post, 1)
    IN  IF matches # <<>>
        THEN Incr(locations, Strip(matches[1][2], SpaceChars))
        ELSE locations

\* CountSalaries, taking the first match only, as for locations and titles.
CountFirstSalary(salary_ranges, post) ==
    LET salaries == SalaryFindAll(post, 1)
    IN  IF salaries # <<>> THEN Incr(salary_ranges, salaries[1])
        ELSE salary_ranges

\* salaries = re.findall(salary_pattern, post)
\* for salary in salaries: self.salary_ranges[salary] += 1
CountSalaries(salary_ranges, post) ==
    IncrAll(salary_ranges, SalaryFindAll(post, 1))

\* title_matches = re.findall(title_pattern, post)
\* if title_matches: self.job_titles[title_matches[0][1].strip()] += 1
CountTitle(job_titles, post) ==
    LET title_matches == TitleFindAll(post, 1)
    IN  IF title_matches # <<>>
        THEN Incr(job_titles, Strip(title_matches[1][2], SpaceChars))
        ELSE job_titles

\* _analyze_post(self, post): the analyzer after analysing one post.
analyze_post(self, post) ==
    [self EXCEPT
        !.technologies  = CountTechnologies(@, Words(post)),
        !.locations     = CountLocation(@, post),
        !.salary_ranges = CountSalaries(@, post),
        !.job_titles    = CountTitle(@, post)]

\* self.job_posts.append(post_text); self._analyze_post(post_text)
ingest_post(self, post_text) ==
    analyze_post([self EXCEPT !.job_posts = Append(@, post_text)], post_text)

\* ------------------------------------------------------------------------
\* The sqlite store: four key/count tables and the job_posts table
\* ------------------------------------------------------------------------

\* _init_db on a new file: CREATE TABLE IF NOT EXISTS, five empty tables.
\* The id and timestamp columns are never read and are left out.
EmptyStore ==
    [technologies |-> EmptyDict,
     locations    |-> EmptyDict,
     salaries     |-> EmptyDict,
     job_titles   |-> EmptyDict,
     job_posts    |-> <<>>]

\* UpsertAdd as INSERT OR REPLACE: the new count overwrites the stored one.
UpsertOverwrite(table, k, n) ==
    [x \in DOMAIN table \cup {k} |-> IF x # k THEN table[x] ELSE n]

\* INSERT OR IGNORE INTO t (name, count) VALUES (k, n)
\* ON CONFLICT(name) DO UPDATE SET count = count + excluded.count
UpsertAdd(table, k, n) ==
    [x \in DOMAIN table \cup {k} |->
        IF x # k THEN table[x]
        ELSE IF k \in DOMAIN table THEN table[k] + n ELSE n]

\* for k, count in d.items(): cursor.execute(<upsert>, (k, count))
RECURSIVE UpsertAll(_, _)
UpsertAll(table, d) ==
    IF DOMAIN d = {} THEN table
    ELSE LET k == CHOOSE x \in DOMAIN d : TRUE
         IN  UpsertAll(UpsertAdd(table, k, d[k]),
                       [x \in DOMAIN d \ {k} |-> d[x]])

\* for post in self.job_posts:
\*     INSERT INTO job_posts (source, content) VALUES ("Hacker News", post)
InsertPosts(rows, job_posts) ==
    rows \o [i \in 1..Len(job_posts) |->
                [source |-> "Hacker News", content |-> job_posts[i]]]

\* The five statement groups of _update_db, in the order of the code.
MergeGroups == 5

\* The n-th statement group of _update_db applied to the transaction's view
\* of the store.
MergeGroup(self, store, n) ==
    CASE n = 1 -> [store EXCEPT !.technologies = UpsertAll(@, self.technologies)]
      [] n = 2 -> [store EXCEPT !.locations = UpsertAll(@, self.locations)]
      [] n = 3 -> [store EXCEPT !.salaries = UpsertAll(@, self.salary_ranges)]
      [] n = 4 -> [store EXCEPT !.job_titles = UpsertAll(@, self.job_titles)]
      [] n = 5 -> [store EXCEPT !.job_posts = InsertPosts(@, self.job_posts)]

\* The transaction's view of the store after the first n statement groups.
RECURSIVE MergeSteps(_, _, _)
MergeSteps(self, store, n) ==
    IF n = 0 THEN store
    ELSE MergeGroup(self, MergeSteps(self, store, n - 1), n)

\* Where sqlite can raise in _update_db: 0 nowhere, k in 1..5 in the k-th
\* statement group (connect included in 1), 6 in conn.commit().
UpdateFailPoints == 0..(MergeGroups + 1)

\* _update_db(self) against store. The connection is a context manager: it
\* commits when the block ends and rolls the transaction back when the
\* block raises, and the exception reaches the caller.
update_db(self, store, fail) ==
    IF fail = 0
    THEN [raised |-> FALSE, store |-> MergeSteps(self, store, MergeGroups)]
    ELSE [raised |-> TRUE, store |-> store]

\* for name, count in cursor.fetchall(): d[name] = count, rows being the
\* rows of a table with a UNIQUE key.
RECURSIVE AssignAll(_, _)
AssignAll(d, rows) ==
    IF DOMAIN rows = {} THEN d
    ELSE LET k == CHOOSE x \in DOMAIN rows : TRUE
         IN  AssignAll(Assign(d, k, rows[k]),
                       [x \in DOMAIN rows \ {k} |-> rows[x]])

\* LoadTechnologies without the membership test: every row is assigned.
LoadEveryTechnology(technologies, rows) ==
    AssignAll(technologies, rows)

\* for name, count in cursor.fetchall():
\*     if name in self.technologies: self.technologies[name] = count
LoadTechnologies(technologies, rows) ==
    AssignAll(technologies,
              [x \in DOMAIN rows \cap DOMAIN technologies |-> rows[x]])

\* self.job_posts = [row[0] for row in cursor.fetchall()]
LoadPosts(rows) == [i \in 1..Len(rows) |-> rows[i].content]

\* The five SELECTs of load_from_db, in the order of the code.
LoadGroups == 5

\* The n-th SELECT of load_from_db and the loop over its rows.
LoadGroup(self, store, n) ==
    CASE n = 1 -> [self EXCEPT !.technologies = LoadTechnologies(@, store.technologies)]
      [] n = 2 -> [self EXCEPT !.locations = AssignAll(@, store.locations)]
      [] n = 3 -> [self EXCEPT !.salary_ranges = AssignAll(@, store.salaries)]
      [] n = 4 -> [self EXCEPT !.job_titles = AssignAll(@, store.job_titles)]
      [] n = 5 -> [self EXCEPT !.job_posts = LoadPosts(store.job_posts)]

\* The analyzer after the first n SELECTs of load_from_db.
RECURSIVE LoadSteps(_, _, _)
LoadSteps(self, store, n) ==
    IF n = 0 THEN self
    ELSE LoadGroup(LoadSteps(self, store, n - 1), store, n)

\* Where sqlite can raise in load_from_db: 0 nowhere, k in 1..5 in the k-th
\* SELECT (connect included in 1).
LoadFailPoints == 0..LoadGroups

\* load_from_db(self) against store. The except clause prints the error and
\* returns: what was assigned before the failing SELECT stays assigned.
load_from_db(self, store, fail) ==
    LoadSteps(self, store, IF fail = 0 THEN LoadGroups ELSE fail - 1)

\* ------------------------------------------------------------------------
\* Scraping: the fetched page as a list of cards, each an HTML block whose
\* elements are found or not
\* ------------------------------------------------------------------------

LowerSeq ==
    <<"a", "b", "c", "d", "e", "f", "g", "h", "i", "j", "k", "l", "m",
      "n", "o", "p", "q", "r", "s", "t", "u", "v", "w", "x", "y", "z">>

UpperSeq ==
    <<"A", "B", "C", "D", "E", "F", "G", "H", "I", "J", "K", "L", "M",
      "N", "O", "P", "Q", "R", "S", "T", "U", "V", "W", "X", "Y", "Z">>

\* str.lower()
Lower(s) ==
    [i \in 1..Len(s) |->
        IF s[i] \in UpperChars
        THEN LowerSeq[CHOOSE n \in 1..Len(UpperSeq) : UpperSeq[n] = s[i]]
        ELSE s[i]]

\* ', '.join(parts)
RECURSIVE Join(_)
Join(parts) ==
    IF parts = <<>> THEN <<>>
    ELSE IF Len(parts) = 1 THEN parts[1]
    ELSE parts[1] \o <<",", " ">> \o Join(Tail(parts))

\* card.find(...): the element when the card has it, None when it has not.
Elem(text) == [found |-> TRUE, text |-> text]
None == [found |-> FALSE]

\* self.job_posts.append(post_text); self._analyze_post(post_text)
\* for the comment of one Hacker News indent tag; a tag without a comment
\* is skipped (if comment:).
RECURSIVE ScrapeHnCards(_, _)
ScrapeHnCards(self, cards) ==
    IF cards = <<>> THEN self
    ELSE LET comment == Head(cards).comment
         IN  IF comment.found
             THEN ScrapeHnCards(ingest_post(self, Lower(comment.text)), Tail(cards))
             ELSE ScrapeHnCards(self, Tail(cards))

\* The loop of scrape_indeed. card.find(...) returning None makes
\* .get_text() raise AttributeError, which leaves the loop for the
\* except clause of the method.
RECURSIVE ScrapeIndeedCards(_, _)
ScrapeIndeedCards(self, cards) ==
    IF cards = <<>> THEN self
    ELSE LET card == Head(cards)
         IN  IF ~(/\ card.title.found /\ card.company.found
                  /\ card.location.found /\ card.snippet.found)
             THEN self
             ELSE LET post_text ==
                          Lower(card.title.text) \o <<" ", "a", "t", " ">>
                          \o Lower(card.company.text) \o <<" ", "i", "n", " ">>
                          \o Lower(card.location.text) \o <<".", " ">>
                          \o Lower(card.snippet.text)
                  IN  ScrapeIndeedCards(ingest_post(self, post_text), Tail(cards))

\* The loop of scrape_linkedin.
RECURSIVE ScrapeLinkedinCards(_, _)
ScrapeLinkedinCards(self, cards) ==
    IF cards = <<>> THEN self
    ELSE LET card == Head(cards)
         IN  IF ~(/\ card.title.found /\ card.company.found
                  /\ card.location.found)
             THEN self
             ELSE LET post_text ==
                          Lower(Strip(card.title.text, SpaceChars))
                          \o <<" ", "a", "t", " ">>
                          \o Lower(Strip(card.company.text, SpaceChars))
                          \o <<" ", "i", "n", " ">>
                          \o Lower(Strip(card.location.text, SpaceChars))
                  IN  ScrapeLinkedinCards(ingest_post(self, post_text), Tail(cards))

\* The loop of scrape_stackoverflow.
RECURSIVE ScrapeStackoverflowCards(_, _)
ScrapeStackoverflowCards(self, cards) ==
    IF cards = <<>> THEN self
    ELSE LET card == Head(cards)
         IN  IF ~(card.title.found /\ card.company.found)
             THEN self
             ELSE LET tags == [i \in 1..Len(card.tags) |-> Lower(card.tags[i])]
                      post_text ==
                          Lower(Strip(card.title.text, SpaceChars))
                          \o <<" ", "a", "t", " ">>
                          \o Lower(Strip(card.company.text, SpaceChars))
                          \o <<".", " ", "S", "k", "i", "l", "l", "s", ":", " ">>
                          \o Join(tags)
                  IN  ScrapeStackoverflowCards(ingest_post(self, post_text), Tail(cards))

\* The four scrape_* methods: when requests.get or raise_for_status raises,
\* the except clause prints and nothing is scraped.
scrape_hn_thread(self, resp) ==
    IF resp.ok THEN ScrapeHnCards(self, resp.cards) ELSE self

scrape_indeed(self, resp) ==
    IF resp.ok THEN ScrapeIndeedCards(self, resp.cards) ELSE self

scrape_linkedin(self, resp) ==
    IF resp.ok THEN ScrapeLinkedinCards(self, resp.cards) ELSE self

scrape_stackoverflow(self, resp) ==
    IF resp.ok THEN ScrapeStackoverflowCards(self, resp.cards) ELSE self

\* scrape_site(self, url): url is the set of site names the URL string
\* contains, resp what fetching it returns.
scrape_site(self, url, resp) ==
    IF "news.ycombinator.com" \in url THEN scrape_hn_thread(self, resp)
    ELSE IF "indeed.com" \in url THEN scrape_indeed(self, resp)
    ELSE IF "linkedin.com" \in url THEN scrape_linkedin(self, resp)
    ELSE IF "stackoverflow.com" \in url THEN scrape_stackoverflow(self, resp)
    ELSE self

\* The method scrape_site dispatches url to, "none" for an unsupported URL.
SiteOf(url) ==
    IF "news.ycombinator.com" \in url THEN "hn"
    ELSE IF "indeed.com" \in url THEN "indeed"
    ELSE IF "linkedin.com" \in url THEN "linkedin"
    ELSE IF "stackoverflow.com" \in url THEN "stackoverflow"
    ELSE "none"

\* The name each scraping method gives its site in its messages.
SourceLabel(site) ==
    CASE site = "hn"            -> "Hacker News"
      [] site = "indeed"        -> "Indeed"
      [] site = "linkedin"      -> "LinkedIn"
      [] site = "stackoverflow" -> "Stack Overflow"

\* ------------------------------------------------------------------------
\* Inputs
\* ------------------------------------------------------------------------

\* "remote based in austin, also based in dallas"
PostRemote ==
    <<"r", "e", "m", "o", "t", "e", " ", "b", "a", "s", "e", "d", " ",
      "i", "n", " ", "a", "u", "s", "t", "i", "n", ",", " ", "a", "l",
      "s", "o", " ", "b", "a", "s", "e", "d", " ", "i", "n", " ", "d",
      "a", "l", "l", "a", "s">>

\* "offering $120k or $95,000 depending on experience"
PostSalary ==
    <<"o", "f", "f", "e", "r", "i", "n", "g", " ", "$", "1", "2", "0",
      "k", " ", "o", "r", " ", "$", "9", "5", ",", "0", "0", "0", " ",
      "d", "e", "p", "e", "n", "d", "i", "n", "g", " ", "o", "n", " ",
      "e", "x", "p", "e", "r", "i", "e", "n", "c", "e">>

\* "golang"
PostGolang ==
    <<"g", "o", "l", "a", "n", "g">>

\* "go, (go) go"
PostGoGo ==
    <<"g", "o", ",", " ", "(", "g", "o", ")", " ", "g", "o">>

\* "seeking rust dev in austin $120k $195,000"
PostSeeking ==
    <<"s", "e", "e", "k", "i", "n", "g", " ", "r", "u", "s", "t", " ",
      "d", "e", "v", " ", "i", "n", " ", "a", "u", "s", "t", "i", "n",
      " ", "$", "1", "2", "0", "k", " ", "$", "1", "9", "5", ",", "0",
      "0", "0">>

\* "c++ in dallas. based in austin"
PostCpp ==
    <<"c", "+", "+", " ", "i", "n", " ", "d", "a", "l", "l", "a", "s",
      ".", " ", "b", "a", "s", "e", "d", " ", "i", "n", " ", "a", "u",
      "s", "t", "i", "n">>

\* "python"
PostPython ==
    <<"p", "y", "t", "h", "o", "n">>

\* The posts handed to _analyze_post.
Posts ==
    {PostRemote, PostSalary, PostGolang, PostGoGo, PostSeeking, PostCpp,
     PostPython}

\* "Python dev"
TextPythonDev ==
    <<"P", "y", "t", "h", "o", "n", " ", "d", "e", "v">>

\* " acme "
TextAcme ==
    <<" ", "a", "c", "m", "e", " ">>

\* "austin"
TextAustin ==
    <<"a", "u", "s", "t", "i", "n">>

\* "seeking go dev $120k"
TextSnippet ==
    <<"s", "e", "e", "k", "i", "n", "g", " ", "g", "o", " ", "d", "e",
      "v", " ", "$", "1", "2", "0", "k">>

\* "Python in Dallas $95k"
TextComment ==
    <<"P", "y", "t", "h", "o", "n", " ", "i", "n", " ", "D", "a", "l",
      "l", "a", "s", " ", "$", "9", "5", "k">>

\* "Go"
TextGo ==
    <<"G", "o">>

\* "sql"
TextSql ==
    <<"s", "q", "l">>

\* A card with every element, a card without its title element and
\* without comment, and a card with a comment only.
CardFull ==
    [title    |-> Elem(TextPythonDev),
     company  |-> Elem(TextAcme),
     location |-> Elem(TextAustin),
     snippet  |-> Elem(TextSnippet),
     comment  |-> Elem(TextComment),
     tags     |-> <<TextGo, TextSql>>]

CardNoTitle ==
    [title    |-> None,
     company  |-> Elem(TextAcme),
     location |-> Elem(TextAustin),
     snippet  |-> Elem(TextSnippet),
     comment  |-> None,
     tags     |-> <<>>]

CardComment ==
    [title    |-> Elem(TextGo),
     company  |-> Elem(TextAcme),
     location |-> None,
     snippet  |-> None,
     comment  |-> Elem(TextSnippet),
     tags     |-> <<TextSql>>]

Cards == {CardFull, CardNoTitle, CardComment}

\* The URLs given on the command line, each as the set of site names it
\* contains.
Urls ==
    {{"news.ycombinator.com"}, {"indeed.com"}, {"linkedin.com"},
     {"stackoverflow.com"}, {}, {"indeed.com", "stackoverflow.com"}}

\* ------------------------------------------------------------------------
\* Bounds
\* ------------------------------------------------------------------------

\* Posts analysed in a behaviour of SpecAnalyze.
MaxRun == 3
\* Posts analysed in a behaviour of SpecOrder.
MaxOrder == 3
\* Cards of one fetched page.
MaxBatch == 2
\* URLs scraped in a behaviour of SpecScrape.
MaxScrape == 2
\* Pages ingested in a behaviour of SpecLegacy.
MaxLegacyIngest == 2
\* Pages ingested in a behaviour of SpecConc.
MaxConcIngest == 2
\* Pages ingested, loads and merges in a behaviour of Spec and SpecFault.
MaxIngest == 1
MaxLoad == 1
MaxUpdate == 1

\* ------------------------------------------------------------------------
\* State
\* ------------------------------------------------------------------------

\* The analyzers (sessions) working on the same database file.
Analyzers == {"a1", "a2"}

VARIABLES
    analyzer,   \* analyzer[a]: the in-memory state of analyzer a (self)
    db,         \* the committed content of the database file
    conn,       \* conn[a]: the connection of a's running _update_db
    lock,       \* the analyzer whose transaction holds the write lock
    db0,        \* history: the content of the database file at start
    hist,       \* history: hist[a].base is analyzer a at construction or
                \*   after its last load, hist[a].store the store at that
                \*   time, hist[a].loaded whether it was a load, hist[a].run
                \*   the posts analysed since, hist[a].sources the site
                \*   label of each post of a's job_posts, in order
    ops,        \* history: how many operations of each kind have run
    last        \* history: the last operation, its inputs, the state before

vars == <<analyzer, db, conn, lock, db0, hist, ops, last>>

\* The store an earlier run left behind: one post ingested and merged.
PriorStore ==
    update_db(ingest_post(NewAnalyzer, PostPython), EmptyStore, 0).store

\* JobMarketAnalyzer(): the database file is new or kept from earlier runs.
InitialStores == {EmptyStore, PriorStore}

\* A technology name that is not in the vocabulary of __init__.
T_cobol == <<"c", "o", "b", "o", "l">>

\* A database file written with another vocabulary: a technologies row whose
\* name this program does not know, a row for python, no row for the rest.
LegacyStore ==
    [EmptyStore EXCEPT !.technologies = (T_cobol :> 4) @@ (T_python :> 2)]

Idle == [pc |-> "idle"]

Init ==
    /\ analyzer = [a \in Analyzers |-> NewAnalyzer]
    /\ db \in InitialStores
    /\ conn = [a \in Analyzers |-> Idle]
    /\ lock = "none"
    /\ db0 = db
    /\ hist = [a \in Analyzers |->
                  [base |-> NewAnalyzer, store |-> db, loaded |-> FALSE,
                   run |-> <<>>, sources |-> <<>>]]
    /\ ops = [analyze |-> 0, scrape |-> 0, load |-> 0, update |-> 0]
    /\ last = [op |-> "init"]

\* JobMarketAnalyzer() on a database file that may also come from another
\* vocabulary.
InitLegacy ==
    /\ analyzer = [a \in Analyzers |-> NewAnalyzer]
    /\ db \in InitialStores \cup {LegacyStore}
    /\ conn = [a \in Analyzers |-> Idle]
    /\ lock = "none"
    /\ db0 = db
    /\ hist = [a \in Analyzers |->
                  [base |-> NewAnalyzer, store |-> db, loaded |-> FALSE,
                   run |-> <<>>, sources |-> <<>>]]
    /\ ops = [analyze |-> 0, scrape |-> 0, load |-> 0, update |-> 0]
    /\ last = [op |-> "init"]

\* The state an operation of analyzer a starts from.
Before(a) == [self |-> analyzer[a], db |-> db]

\* ------------------------------------------------------------------------
\* Operations
\* ------------------------------------------------------------------------

\* analyzer._analyze_post(post)
DoAnalyzePost(a, post, max) ==
    /\ ops.analyze < max
    /\ conn[a].pc = "idle"
    /\ analyzer' = [analyzer EXCEPT ![a] = analyze_post(@, post)]
    /\ hist' = [hist EXCEPT ![a].run = Append(@, post)]
    /\ ops' = [ops EXCEPT !.analyze = @ + 1]
    /\ last' = [op |-> "analyze", a |-> a, post |-> post, pre |-> Before(a)]
    /\ UNCHANGED <<db, conn, lock, db0>>

\* analyzer.scrape_site(url), the fetch returning resp
DoScrapeSite(a, url, resp, max) ==
    /\ ops.scrape < max
    /\ conn[a].pc = "idle"
    /\ LET self == scrape_site(analyzer[a], url, resp)
           new  == SubSeq(self.job_posts, Len(analyzer[a].job_posts) + 1,
                          Len(self.job_posts))
       IN  /\ analyzer' = [analyzer EXCEPT ![a] = self]
           /\ hist' = [hist EXCEPT
                        ![a].run = @ \o new,
                        ![a].sources =
                            @ \o [i \in 1..Len(new) |-> SourceLabel(SiteOf(url))]]
    /\ ops' = [ops EXCEPT !.scrape = @ + 1]
    /\ last' = [op |-> "scrape", a |-> a, url |-> url, resp |-> resp,
                pre |-> Before(a)]
    /\ UNCHANGED <<db, conn, lock, db0>>

\* analyzer.load_from_db(), sqlite raising at fail
DoLoadFromDb(a, fail) ==
    /\ ops.load < MaxLoad
    /\ conn[a].pc = "idle"
    /\ LET self == load_from_db(analyzer[a], db, fail)
       IN  /\ analyzer' = [analyzer EXCEPT ![a] = self]
           /\ hist' = [hist EXCEPT ![a] =
                        [base |-> self, store |-> db, loaded |-> TRUE,
                         run |-> <<>>,
                         sources |->
                             IF fail = 0
                             THEN [i \in 1..Len(db.job_posts) |->
                                      db.job_posts[i].source]
                             ELSE hist[a].sources]]
    /\ ops' = [ops EXCEPT !.load = @ + 1]
    /\ last' = [op |-> "load", a |-> a, fail |-> fail, pre |-> Before(a)]
    /\ UNCHANGED <<db, conn, lock, db0>>

\* analyzer._update_db() run with no other connection open, sqlite raising
\* at fail
DoUpdateDb(a, fail) ==
    /\ ops.update < MaxUpdate
    /\ conn[a].pc = "idle"
    /\ lock = "none"
    /\ LET r == update_db(analyzer[a], db, fail)
       IN  /\ db' = r.store
           /\ last' = [op |-> "update", a |-> a, fail |-> fail,
                       raised |-> r.raised, pre |-> Before(a)]
    /\ ops' = [ops EXCEPT !.update = @ + 1]
    /\ UNCHANGED <<analyzer, conn, lock, db0, hist>>

\* ------------------------------------------------------------------------
\* Specifications
\* ------------------------------------------------------------------------

\* What a fetch can return: an exception, or a page of up to MaxBatch cards.
RECURSIVE SeqsUpTo(_, _)
SeqsUpTo(S, n) ==
    IF n = 0 THEN {<<>>}
    ELSE LET shorter == SeqsUpTo(S, n - 1)
         IN  shorter \cup {Append(s, x) : s \in shorter, x \in S}

Responses ==
    {[ok |-> FALSE]} \cup {[ok |-> TRUE, cards |-> cs] : cs \in SeqsUpTo(Cards, MaxBatch)}

\* One analyzer analysing posts.
NextAnalyze == \E post \in Posts : DoAnalyzePost("a1", post, MaxRun)

SpecAnalyze == Init /\ [][NextAnalyze]_vars

\* One analyzer scraping the URLs of its command line.
NextScrape ==
    \E url \in Urls, resp \in Responses : DoScrapeSite("a1", url, resp, MaxScrape)

SpecScrape == Init /\ [][NextScrape]_vars

\* The pages the analyzers of Spec fetch: one Hacker News comment each.
HnUrl == {"news.ycombinator.com"}
HnPages == {[ok |-> TRUE, cards |-> <<c>>] : c \in {CardFull, CardComment}}

\* Analyzers ingesting posts, loading from and merging into the store, one
\* operation at a time, sqlite raising nowhere.
Next ==
    \E a \in Analyzers :
        \/ \E resp \in HnPages : DoScrapeSite(a, HnUrl, resp, MaxIngest)
        \/ DoLoadFromDb(a, 0)
        \/ DoUpdateDb(a, 0)

Spec == Init /\ [][Next]_vars

\* One analyzer ingesting, loading and merging, sqlite raising anywhere.
NextFault ==
    \/ \E resp \in HnPages : DoScrapeSite("a1", HnUrl, resp, MaxIngest)
    \/ \E fail \in LoadFailPoints : DoLoadFromDb("a1", fail)
    \/ \E fail \in UpdateFailPoints : DoUpdateDb("a1", fail)

SpecFault == Init /\ [][NextFault]_vars

\* Where load_from_db fails in SpecLegacy: nowhere, in the SELECT of the
\* technologies, in the SELECT after it.
LegacyFailPoints == {0, 1, 2}

\* One analyzer ingesting, loading and merging, on a database file that may
\* come from another vocabulary.
NextLegacy ==
    \/ \E resp \in HnPages : DoScrapeSite("a1", HnUrl, resp, MaxLegacyIngest)
    \/ \E fail \in LegacyFailPoints : DoLoadFromDb("a1", fail)
    \/ DoUpdateDb("a1", 0)

SpecLegacy == InitLegacy /\ [][NextLegacy]_vars

\* One analyzer scraping pages of one card from any site, loading, and
\* merging with sqlite raising anywhere.
NextPosts ==
    \/ \E url \in Urls, resp \in HnPages : DoScrapeSite("a1", url, resp, MaxScrape)
    \/ DoLoadFromDb("a1", 0)
    \/ \E fail \in UpdateFailPoints : DoUpdateDb("a1", fail)

SpecPosts == Init /\ [][NextPosts]_vars

\* One analyzer analysing posts after loading or not.
OrderPosts == {PostCpp, PostSeeking, PostPython}

NextOrder ==
    \/ \E post \in OrderPosts : DoAnalyzePost("a1", post, MaxOrder)
    \/ DoLoadFromDb("a1", 0)

SpecOrder == Init /\ [][NextOrder]_vars

\* ------------------------------------------------------------------------
\* _update_db step by step, for analyzers merging at the same time
\* ------------------------------------------------------------------------

\* WriteLockFree, every connection writing whenever it wants.
NoWriteLock(a) == TRUE

\* sqlite lets one connection at a time write: a's statement can run when
\* no other connection's transaction holds the write lock.
WriteLockFree(a) == lock \in {"none", a}

\* with sqlite3.connect(self.db_path) as conn: cursor = conn.cursor()
MergeConnect(a) ==
    /\ conn[a].pc = "idle"
    /\ conn' = [conn EXCEPT ![a] =
                   [pc |-> "open", done |-> 0, txn |-> db,
                    overlap |-> \E b \in Analyzers \ {a} : conn[b].pc = "open"]]
    /\ ops' = [ops EXCEPT !.update = @ + 1]
    /\ last' = [op |-> "connect", a |-> a, pre |-> Before(a)]
    /\ UNCHANGED <<analyzer, db, lock, db0, hist>>

\* The next statement group of a's _update_db. The first statement begins
\* the transaction on the committed store and takes the write lock; the
\* transaction's writes stay in its own view until the commit.
MergeExec(a) ==
    /\ conn[a].pc = "open"
    /\ conn[a].done < MergeGroups
    /\ WriteLockFree(a)
    /\ LET view == IF conn[a].done = 0 THEN db ELSE conn[a].txn
       IN  conn' = [conn EXCEPT ![a].txn = MergeGroup(analyzer[a], view, conn[a].done + 1),
                                ![a].done = @ + 1]
    /\ lock' = a
    /\ last' = [op |-> "execute", a |-> a, pre |-> Before(a)]
    /\ UNCHANGED <<analyzer, db, db0, hist, ops>>

\* a's statement waits for the write lock until sqlite's busy timeout and
\* raises "database is locked": the block is left and nothing is written.
MergeBusy(a) ==
    /\ conn[a].pc = "open"
    /\ conn[a].done < MergeGroups
    /\ ~WriteLockFree(a)
    /\ conn' = [conn EXCEPT ![a] = [pc |-> "failed", overlap |-> TRUE]]
    /\ last' = [op |-> "busy", a |-> a, pre |-> Before(a)]
    /\ UNCHANGED <<analyzer, db, lock, db0, hist, ops>>

\* conn.commit(): the transaction's view becomes the committed store and
\* the write lock is released.
MergeCommit(a) ==
    /\ conn[a].pc = "open"
    /\ conn[a].done = MergeGroups
    /\ db' = conn[a].txn
    /\ lock' = "none"
    /\ conn' = [conn EXCEPT ![a] = [pc |-> "done", overlap |-> conn[a].overlap]]
    /\ last' = [op |-> "commit", a |-> a, pre |-> Before(a)]
    /\ UNCHANGED <<analyzer, db0, hist, ops>>

\* Analyzers ingesting posts and then merging once each, their merges
\* interleaved statement group by statement group.
NextConc ==
    \E a \in Analyzers :
        \/ \E resp \in HnPages : DoScrapeSite(a, HnUrl, resp, MaxConcIngest)
        \/ MergeConnect(a)
        \/ MergeExec(a)
        \/ MergeBusy(a)
        \/ MergeCommit(a)

SpecConc == Init /\ [][NextConc]_vars

\* ------------------------------------------------------------------------
\* Properties
\* ------------------------------------------------------------------------

\* The analyzer the last operation ran on, as it is now.
Now == analyzer[last.a]

\* The sum of the counts of a dict.
RECURSIVE SumCounts(_)
SumCounts(d) ==
    IF DOMAIN d = {} THEN 0
    ELSE LET k == CHOOSE x \in DOMAIN d : TRUE
         IN  d[k] + SumCounts([x \in DOMAIN d \ {k} |-> d[x]])

\* Every substring of a post: the keys an extraction can produce from it.
Substrings(post) ==
    {<<>>} \cup {SubSeq(post, i, j) : i \in 1..Len(post), j \in 1..Len(post)}

\* The whitespace-separated tokens of a post as spans <<i, j>>: post[i..j]
\* is a maximal run of non-whitespace characters.
TokenSpans(post) ==
    LET n      == Len(post)
        starts == {i \in 1..n : /\ post[i] \notin SpaceChars
                                /\ i = 1 \/ post[i - 1] \in SpaceChars}
        ends   == {j \in 1..n : /\ post[j] \notin SpaceChars
                                /\ j = n \/ post[j + 1] \in SpaceChars}
    IN  {sp \in starts \X ends :
            /\ sp[1] <= sp[2]
            /\ \A k \in sp[1]..sp[2] : post[k] \notin SpaceChars}

\* Technology t is the token at span sp once the token's leading and
\* trailing punctuation is stripped: t starts at some l of the token and
\* only strip characters surround it in the token.
IsToken(post, sp, t) ==
    \E l \in sp[1]..sp[2] :
        LET r == l + Len(t) - 1
        IN  /\ r <= sp[2]
            /\ SubSeq(post, l, r) = t
            /\ \A k \in sp[1]..(l - 1) : post[k] \in StripChars
            /\ \A k \in (r + 1)..sp[2] : post[k] \in StripChars

\* C4: analysing one post adds exactly 1 to the counter of every technology
\* that equals a stripped whitespace-separated token of the post, however
\* often the token occurs, and leaves every other technology counter as it
\* was; "golang" does not count for "go".
C4_ExactTokenOncePerPost ==
    last.op = "analyze" =>
        LET spans == TokenSpans(last.post)
        IN  /\ \A t \in Vocabulary :
                  Now.technologies[t] =
                      last.pre.self.technologies[t]
                      + (IF \E sp \in spans : IsToken(last.post, sp, t)
                         THEN 1 ELSE 0)
            /\ last.post = PostGolang =>
                  Now.technologies[T_go] = last.pre.self.technologies[T_go]

\* C4 witness: "go, (go) go" analysed after "golang": go counted once.
C4_Witness ==
    /\ last.op = "analyze"
    /\ hist[last.a].run = <<PostGolang, PostGoGo>>
    /\ Now.technologies[T_go] = 1

Key120k == <<"1", "2", "0", "k">>
Key95000 == <<"9", "5", ",", "0", "0", "0">>
Key195000 == <<"1", "9", "5", ",", "0", "0", "0">>

\* k has the form of a salary amount: two or three digits and "k", or three
\* digits, a comma and three digits.
IsSalaryKey(k) ==
    \/ /\ Len(k) \in {3, 4}
       /\ \A i \in 1..(Len(k) - 1) : k[i] \in DigitChars
       /\ k[Len(k)] = "k"
    \/ /\ Len(k) = 7
       /\ \A i \in {1, 2, 3, 5, 6, 7} : k[i] \in DigitChars
       /\ k[4] = ","

\* The positions of post where "$" and the amount k stand.
SalaryMentions(post, k) ==
    {i \in 1..Len(post) : post[i] = "$" /\ MatchLit(post, i + 1, k)}

\* C5 as stated: analysing "offering $120k or $95,000 depending on
\* experience" records two salary signals, one for "120k" and one for
\* "95,000".
C5_Original ==
    (last.op = "analyze" /\ last.post = PostSalary) =>
        /\ Get(Now.salary_ranges, Key120k)
              = Get(last.pre.self.salary_ranges, Key120k) + 1
        /\ Get(Now.salary_ranges, Key95000)
              = Get(last.pre.self.salary_ranges, Key95000) + 1

\* C5 amended: analysing a post adds, for every amount k, as many salary
\* signals as the post has places where "$" is followed by k, k being two
\* or three digits and "k" or three digits, a comma and three digits; all
\* of them are taken. "offering $120k or $95,000 depending on experience"
\* yields one signal, for "120k", and none for "95,000", which has two
\* digits before its comma.
C5_EveryPatternMatchCounted ==
    last.op = "analyze" =>
        /\ \A k \in Substrings(last.post) \cup DOMAIN Now.salary_ranges :
              Get(Now.salary_ranges, k) =
                  Get(last.pre.self.salary_ranges, k)
                  + (IF IsSalaryKey(k)
                     THEN Cardinality(SalaryMentions(last.post, k)) ELSE 0)
        /\ last.post = PostSalary =>
              /\ Get(Now.salary_ranges, Key120k)
                    = Get(last.pre.self.salary_ranges, Key120k) + 1
              /\ Key95000 \notin DOMAIN Now.salary_ranges
              /\ SumCounts(Now.salary_ranges)
                    = SumCounts(last.pre.self.salary_ranges) + 1

\* C5 witness: "seeking rust dev in austin $120k $195,000" analysed after
\* the post of the claim: "120k" twice, "195,000" once, "95,000" never.
C5_Witness ==
    /\ last.op = "analyze"
    /\ hist[last.a].run = <<PostSalary, PostSeeking>>
    /\ Now.salary_ranges = (Key120k :> 2) @@ (Key195000 :> 1)

KeyDallas == <<"d", "a", "l", "l", "a", "s">>

\* The positions of post where the location pattern matches.
LocationMatchPositions(post) ==
    {i \in 1..Len(post) : LocationMatchAt(post, i).found}

\* C6: analysing one post records at most one location signal: when the
\* location pattern matches somewhere in the post, the count of the trimmed
\* phrase captured at the leftmost match grows by 1 and no other location
\* count changes, so the sum of the location counts grows by exactly 1;
\* when it matches nowhere, the location counts stay as they were. "remote
\* based in austin, also based in dallas" yields exactly one signal.
C6_OneLocationPerPost ==
    last.op = "analyze" =>
        LET at  == LocationMatchPositions(last.post)
            old == last.pre.self.locations
            new == Now.locations
        IN  /\ at = {} => new = old
            /\ at # {} =>
                  LET first == CHOOSE i \in at : \A j \in at : i <= j
                      key   == Strip(LocationMatchAt(last.post, first).groups[2],
                                     SpaceChars)
                  IN  /\ Get(new, key) = Get(old, key) + 1
                      /\ \A k \in (DOMAIN new \cup DOMAIN old) \ {key} :
                            Get(new, k) = Get(old, k)
                      /\ SumCounts(new) = SumCounts(old) + 1
            /\ last.post = PostRemote => SumCounts(new) = SumCounts(old) + 1

\* C6 witness: "c++ in dallas. based in austin", which has two matches,
\* analysed after the post of the claim: one signal each, "dallas" for the
\* second post.
C6_Witness ==
    /\ last.op = "analyze"
    /\ hist[last.a].run = <<PostRemote, PostCpp>>
    /\ Len(LocationFindAll(PostCpp, 1)) = 2
    /\ SumCounts(Now.locations) = 2
    /\ Get(Now.locations, KeyDallas) = 1

\* The analyzer after analysing the posts of a list one after the other.
RECURSIVE AnalyzeSeq(_, _)
AnalyzeSeq(self, posts) ==
    IF posts = <<>> THEN self
    ELSE AnalyzeSeq(analyze_post(self, Head(posts)), Tail(posts))

\* The permutations of 1..n.
Permutations1(n) ==
    {f \in [1..n -> 1..n] : \A i, j \in 1..n : f[i] = f[j] => i = j}

\* The four counters of an analyzer.
Counters(self) ==
    <<self.technologies, self.locations, self.salary_ranges, self.job_titles>>

\* C7: the counters do not depend on the order of the posts: analysing any
\* permutation of the posts analysed since the analyzer's starting state
\* (construction or the last load), from that starting state, gives the
\* technology, location, salary and title counts the analyzer has now.
C7_OrderIndependent ==
    \A a \in Analyzers :
        LET run == hist[a].run
        IN  \A f \in Permutations1(Len(run)) :
                Counters(AnalyzeSeq(hist[a].base, [i \in 1..Len(run) |-> run[f[i]]]))
                    = Counters(analyzer[a])

\* C7 witness: three different posts analysed, two with different
\* locations, starting from loaded counts.
C7_Witness ==
    /\ last.op = "analyze"
    /\ Len(hist[last.a].run) = 3
    /\ Cardinality({hist[last.a].run[i] : i \in 1..3}) = 3
    /\ Cardinality(DOMAIN Now.locations) = 2
    /\ hist[last.a].base.technologies[T_python] = 1

\* A card is malformed for a site when it lacks an element that the site's
\* method reads the text of.
Malformed(site, card) ==
    CASE site = "indeed" ->
            ~(/\ card.title.found /\ card.company.found
              /\ card.location.found /\ card.snippet.found)
      [] site = "linkedin" ->
            ~(card.title.found /\ card.company.found /\ card.location.found)
      [] site = "stackoverflow" ->
            ~(card.title.found /\ card.company.found)
      [] OTHER -> FALSE

\* The cards of a page that are well formed for a site, in order.
RECURSIVE WellFormed(_, _)
WellFormed(site, cards) ==
    IF cards = <<>> THEN <<>>
    ELSE IF Malformed(site, Head(cards)) THEN WellFormed(site, Tail(cards))
    ELSE <<Head(cards)>> \o WellFormed(site, Tail(cards))

\* C8 as stated: a malformed card costs only itself: scraping a page leaves
\* the analyzer as scraping the page without its malformed cards does, so
\* every well-formed card after a malformed one is appended to job_posts
\* and analysed.
C8_MalformedPostDoesNotAbort ==
    (last.op = "scrape" /\ last.resp.ok) =>
        Now = scrape_site(last.pre.self, last.url,
                          [ok    |-> TRUE,
                           cards |-> WellFormed(SiteOf(last.url), last.resp.cards)])

\* The four count tables of a store, in the order of Counters.
Tables(store) ==
    <<store.technologies, store.locations, store.salaries, store.job_titles>>

\* The four categories as indices of Counters and Tables.
Categories == 1..4

\* C1 as stated: a session that starts by loading the stored totals,
\* analyses new posts and merges once leaves every stored count at its
\* value before the session plus the number of signals for that key
\* extracted from the new posts only.
C1_SessionAddsNewSignalsOnly ==
    (/\ last.op = "update" /\ ~last.raised
     /\ hist[last.a].loaded
     /\ hist[last.a].base = load_from_db(NewAnalyzer, hist[last.a].store, 0)
     /\ last.pre.db = hist[last.a].store)
    =>
        LET before == Tables(hist[last.a].store)
            fresh  == Counters(AnalyzeSeq(NewAnalyzer, hist[last.a].run))
            after  == Tables(db)
        IN  \A c \in Categories :
                \A k \in DOMAIN before[c] \cup DOMAIN fresh[c] \cup DOMAIN after[c] :
                    Get(after[c], k) = Get(before[c], k) + Get(fresh[c], k)

\* No count of the lists of dicts old is missing or lower in new.
NoDecrease(old, new) ==
    \A c \in 1..Len(old) :
        \A k \in DOMAIN old[c] : k \in DOMAIN new[c] /\ new[c][k] >= old[c][k]

\* C3 as stated: every in-memory and stored count is >= 0, and no
\* _analyze_post, load_from_db or _update_db step decreases a count or
\* removes a key, in memory or in the store.
C3_CountsNeverDecrease ==
    /\ \A a \in Analyzers :
          \A c \in Categories :
              \A k \in DOMAIN Counters(analyzer[a])[c] :
                  Counters(analyzer[a])[c][k] >= 0
    /\ \A c \in Categories : \A k \in DOMAIN Tables(db)[c] : Tables(db)[c][k] >= 0
    /\ last.op # "init" =>
          /\ NoDecrease(Counters(last.pre.self), Counters(Now))
          /\ NoDecrease(Tables(last.pre.db), Tables(db))

\* The last operation was a load_from_db or an _update_db in which sqlite
\* raised.
PersistenceFailed ==
    \/ last.op = "load" /\ last.fail # 0
    \/ last.op = "update" /\ last.raised

\* C9 as stated: when _update_db or load_from_db fails at any point, the
\* in-memory counters and the post list are what they were before the call.
C9_FailureKeepsMemory ==
    PersistenceFailed => Now = last.pre.self

\* C2: a merge adds and never overwrites: after an _update_db that
\* committed, for each of the four categories and each key of the in-memory
\* counters, the stored count is the count stored before the merge (0 when
\* the key had no row) plus the in-memory count.
C2_MergeAdds ==
    (last.op = "update" /\ ~last.raised) =>
        LET mem    == Counters(last.pre.self)
            before == Tables(last.pre.db)
            after  == Tables(db)
        IN  \A c \in Categories :
                \A k \in DOMAIN mem[c] :
                    /\ k \in DOMAIN after[c]
                    /\ after[c][k] = Get(before[c], k) + mem[c][k]

\* C2 witness: the store holds python with count 1, an analyzer that
\* counted python once merges, and the store holds 2 (not 1); the same
\* merge inserts the location row, which the store did not have.
C2_Witness ==
    /\ last.op = "update" /\ ~last.raised
    /\ Get(last.pre.self.technologies, T_python) = 1
    /\ Get(last.pre.db.technologies, T_python) = 1
    /\ Get(db.technologies, T_python) = 2
    /\ KeyDallas \notin DOMAIN last.pre.db.locations
    /\ Get(db.locations, KeyDallas) = 1

C11_TechnologyKeysAreVocabulary ==
    /\ \A a \in Analyzers : DOMAIN analyzer[a].technologies = Vocabulary
    /\ (last.op = "load" /\ last.fail # 1) =>
           \A t \in Vocabulary :
               Now.technologies[t] =
                   IF t \in DOMAIN last.pre.db.technologies
                   THEN last.pre.db.technologies[t]
                   ELSE last.pre.self.technologies[t]

\* C11 witness: a load from a store with a cobol row and python at 2, by an
\* analyzer that had counted python and go once: python becomes 2, go (no
\* row) stays 1 and cobol is no key.
C11_Witness ==
    /\ last.op = "load" /\ last.fail = 0
    /\ T_cobol \in DOMAIN last.pre.db.technologies
    /\ T_cobol \notin DOMAIN Now.technologies
    /\ last.pre.self.technologies[T_python] = 1
    /\ last.pre.db.technologies[T_python] = 2
    /\ Now.technologies[T_python] = 2
    /\ T_go \notin DOMAIN last.pre.db.technologies
    /\ Now.technologies[T_go] = 1

\* The rows _update_db is to append for the posts analyzer a holds: one per
\* post, in order, with the post's own site label and its text.
OwnRows(a) ==
    [i \in 1..Len(analyzer[a].job_posts) |->
        [source |-> hist[a].sources[i], content |-> analyzer[a].job_posts[i]]]

\* C12: the stored posts are append-only and faithful: no operation changes
\* or removes a stored post row, and a committed _update_db appends exactly
\* one row per post the session holds, in order, with that post's own source
\* label and content, duplicates included.
C12_PostsAppendOnlyFaithful ==
    last.op # "init" =>
        /\ Len(last.pre.db.job_posts) <= Len(db.job_posts)
        /\ SubSeq(db.job_posts, 1, Len(last.pre.db.job_posts))
               = last.pre.db.job_posts
        /\ (last.op = "update" /\ ~last.raised) =>
               db.job_posts = last.pre.db.job_posts \o OwnRows(last.a)
        /\ (last.op = "update" /\ last.raised) => db = last.pre.db

\* What holds of _update_db whatever the site: stored rows stay as they are
\* and a committed merge appends the text of every held post, in order.
PostsAppendOnlyContent ==
    last.op # "init" =>
        /\ Len(last.pre.db.job_posts) <= Len(db.job_posts)
        /\ SubSeq(db.job_posts, 1, Len(last.pre.db.job_posts))
               = last.pre.db.job_posts
        /\ (last.op = "update" /\ ~last.raised) =>
               /\ Len(db.job_posts) =
                      Len(last.pre.db.job_posts) + Len(Now.job_posts)
               /\ \A i \in 1..Len(Now.job_posts) :
                      db.job_posts[Len(last.pre.db.job_posts) + i].content
                          = Now.job_posts[i]

====
